---- MODULE Spec2Model ----
(***************************************************************************)
(* A model of json_semi_beautifier.py: the SemiBeautifier class            *)
(* (get_operator_level, should_inline, format_value, beautify) and the     *)
(* part of main() that assembles the operator configuration, formats a     *)
(* file in place and can be run again on the file it wrote.                *)
(*                                                                         *)
(* Text is a sequence of one-character strings.  A decoded JSON value is   *)
(* a record tagged by t: "null", "bool", "num", "str", "arr" or "obj"; an  *)
(* object keeps its keys (k) and its values (v) as two sequences of the    *)
(* same length, in insertion order, as a Python dict does.                 *)
(***************************************************************************)
EXTENDS Integers, Sequences, FiniteSets, TLC

VARIABLES args, file, data, beautifier, formatted, done, err, ret, pc

vars == <<args, file, data, beautifier, formatted, done, err, ret, pc>>

-----------------------------------------------------------------------------
(* Characters and text *)

QUOTE == "\""

BSL == "\\"

NL == "\n"

SP == " "

RECURSIVE Repeat(_, _)
\* Python's  s * n  on strings
Repeat(s, n) == IF n <= 0 THEN <<>> ELSE s \o Repeat(s, n - 1)

RECURSIVE Join(_, _)
\* Python's  sep.join(parts)
Join(parts, sep) ==
    IF Len(parts) = 0 THEN <<>>
    ELSE IF Len(parts) = 1 THEN parts[1]
    ELSE parts[1] \o sep \o Join(Tail(parts), sep)

-----------------------------------------------------------------------------
(* Decoded JSON values *)

Null == [t |-> "null"]

Bool(b) == [t |-> "bool", b |-> b]

Num(n) == [t |-> "num", n |-> n]

Str(s) == [t |-> "str", s |-> s]

Arr(a) == [t |-> "arr", a |-> a]

Obj(k, v) == [t |-> "obj", k |-> k, v |-> v]

\* isinstance(obj, (str, int, float, bool, type(None)))
IsScalar(obj) == obj.t \in {"null", "bool", "num", "str"}

\* isinstance(obj, dict)
IsDict(obj) == obj.t = "obj"

\* isinstance(obj, list)
IsList(obj) == obj.t = "arr"

-----------------------------------------------------------------------------
(* json.dumps *)

Digit(d) == CASE d = 0 -> "0" [] d = 1 -> "1" [] d = 2 -> "2" [] d = 3 -> "3"
              [] d = 4 -> "4" [] d = 5 -> "5" [] d = 6 -> "6" [] d = 7 -> "7"
              [] d = 8 -> "8" [] d = 9 -> "9"

RECURSIVE IntToChars(_)
\* the decimal text of a non-negative int
IntToChars(n) ==
    IF n < 10 THEN <<Digit(n)>> ELSE IntToChars(n \div 10) \o <<Digit(n % 10)>>

\* json.dumps escapes a character of a string (ensure_ascii): the quote, the
\* backslash and the control characters get a backslash escape
EscapeChar(c) ==
    CASE c = QUOTE -> <<BSL, QUOTE>>
      [] c = BSL -> <<BSL, BSL>>
      [] c = NL -> <<BSL, "n">>
      [] OTHER -> <<c>>

RECURSIVE EscapeChars(_)
EscapeChars(s) ==
    IF Len(s) = 0 THEN <<>> ELSE EscapeChar(s[1]) \o EscapeChars(Tail(s))

\* json.dumps of a str
EncodeString(s) == <<QUOTE>> \o EscapeChars(s) \o <<QUOTE>>

RECURSIVE JsonDumps(_, _, _)
\* json.dumps(obj, separators=(item_sep, key_sep))
JsonDumps(obj, item_sep, key_sep) ==
    CASE obj.t = "null" -> <<"n", "u", "l", "l">>
      [] obj.t = "bool" -> IF obj.b THEN <<"t", "r", "u", "e">>
                                    ELSE <<"f", "a", "l", "s", "e">>
      [] obj.t = "num" -> IntToChars(obj.n)
      [] obj.t = "str" -> EncodeString(obj.s)
      [] obj.t = "arr" ->
            <<"[">>
            \o Join([i \in 1..Len(obj.a) |->
                        JsonDumps(obj.a[i], item_sep, key_sep)], item_sep)
            \o <<"]">>
      [] obj.t = "obj" ->
            <<"{">>
            \o Join([i \in 1..Len(obj.k) |->
                        EncodeString(obj.k[i]) \o key_sep
                        \o JsonDumps(obj.v[i], item_sep, key_sep)], item_sep)
            \o <<"}">>

\* separators=(',', ':')
Minified(obj) == JsonDumps(obj, <<",">>, <<":">>)

\* separators=(', ', ': ')
SingleLine(obj) == JsonDumps(obj, <<",", SP>>, <<":", SP>>)

-----------------------------------------------------------------------------
(* The operator configuration: a Python dict, here the sequence of its     *)
(* items in insertion order.  An item is [key, ops, rules]: a category     *)
(* holds its operator names in ops, the item "special" holds its rules, a  *)
(* mapping from an operator name to [always_expand, has_min_items,         *)
(* min_items].  None and the empty dict are both falsy and the code only   *)
(* ever tests the configuration's truth, so both are the empty sequence.   *)

NoRules == [x \in {} |-> 0]

Category(key, ops) == [key |-> key, ops |-> ops, rules |-> NoRules]

SpecialItem(rules) == [key |-> "special", ops |-> {}, rules |-> rules]

MinItems(n) == [always_expand |-> FALSE, has_min_items |-> TRUE, min_items |-> n]

AlwaysExpand == [always_expand |-> TRUE, has_min_items |-> FALSE, min_items |-> 0]

RECURSIVE DictIndex(_, _, _)
\* the position of key in the dict's items, 0 when it is absent
DictIndex(items, key, i) ==
    IF i > Len(items) THEN 0
    ELSE IF items[i].key = key THEN i
    ELSE DictIndex(items, key, i + 1)

\* operator_config.get(key, [])
GetOps(config, key) ==
    LET i == DictIndex(config, key, 1) IN IF i = 0 THEN {} ELSE config[i].ops

\* operator_config.get('special', {})
GetSpecial(config) ==
    LET i == DictIndex(config, "special", 1)
    IN  IF i = 0 THEN NoRules ELSE config[i].rules

RECURSIVE LevelFrom(_, _, _)
LevelFrom(items, i, operator) ==
    IF i > Len(items) THEN "auto"
    ELSE IF items[i].key = "special" THEN LevelFrom(items, i + 1, operator)
    ELSE IF operator \in items[i].ops THEN items[i].key
    ELSE LevelFrom(items, i + 1, operator)

\* SemiBeautifier.get_operator_level
get_operator_level(self, operator) == LevelFrom(self.operator_config, 1, operator)

-----------------------------------------------------------------------------
(* SemiBeautifier.should_inline *)

\* line 70: a compact operator's list of more than two arguments
CompactExpands(value) == IsList(value) /\ Len(value.a) > 2

\* SpecialExpands with  >=  for  >  in the min_items test
SpecialExpands_AtLeast(self, key, value) ==
    LET special == GetSpecial(self.operator_config)
    IN  /\ key \in DOMAIN special
        /\ \/ special[key].always_expand
           \/ /\ special[key].has_min_items
              /\ IsList(value)
              /\ Len(value.a) >= special[key].min_items

\* SpecialExpands without the always_expand test
SpecialExpands_MinItemsOnly(self, key, value) ==
    LET special == GetSpecial(self.operator_config)
    IN  /\ key \in DOMAIN special
        /\ special[key].has_min_items
        /\ IsList(value)
        /\ Len(value.a) > special[key].min_items

\* lines 75-81: the operator has a special rule and the rule refuses to inline
SpecialExpands(self, key, value) ==
    LET special == GetSpecial(self.operator_config)
    IN  /\ key \in DOMAIN special
        /\ \/ special[key].always_expand
           \/ /\ special[key].has_min_items
              /\ IsList(value)
              /\ Len(value.a) > special[key].min_items

\* TooManyItems with  >=  for  >
TooManyItems_OffByOne(self, n) == n >= self.max_inline_items

\* lines 87 and 100: len(obj) > self.max_inline_items
TooManyItems(self, n) == n > self.max_inline_items

\* lines 96-97 and 109-110: the minified length is within max_inline_length
FitsInline(self, obj) == Len(Minified(obj)) <= self.max_inline_length

RECURSIVE should_inline(_, _)
should_inline(self, obj) ==
    IF IsScalar(obj) THEN TRUE
    ELSE IF IsDict(obj) THEN
        IF Len(obj.k) = 1 THEN
            LET key == obj.k[1]
                value == obj.v[1]
                level == get_operator_level(self, key)
            IN  IF level = "inline" THEN TRUE
                ELSE IF level = "expanded" THEN FALSE
                ELSE IF level = "compact" THEN
                    IF CompactExpands(value) THEN FALSE
                    ELSE should_inline(self, value)
                ELSE IF SpecialExpands(self, key, value) THEN FALSE
                ELSE should_inline(self, value)
        ELSE IF TooManyItems(self, Len(obj.k)) THEN FALSE
        ELSE IF \E i \in 1..Len(obj.v) : ~should_inline(self, obj.v[i]) THEN FALSE
        ELSE FitsInline(self, obj)
    ELSE
        IF TooManyItems(self, Len(obj.a)) THEN FALSE
        ELSE IF \E i \in 1..Len(obj.a) : ~should_inline(self, obj.a[i]) THEN FALSE
        ELSE FitsInline(self, obj)

-----------------------------------------------------------------------------
(* SemiBeautifier.format_value *)

\* f'"{k}"': the key between two quotes, as it is, unescaped
RawKey(key) == <<QUOTE>> \o key \o <<QUOTE>>

\* line 128
EmptyDict == <<"{", "}">>

\* line 183
EmptyList == <<"[", "]">>

RECURSIVE format_value(_, _, _)

\* ExpandedShape with the closer indented like the elements
ExpandedShape_DeepCloser(self, key, value, depth) ==
    LET next_indent == Repeat(self.indent_str, depth + 1)
        line(i) == next_indent \o format_value(self, value.a[i], depth + 1)
                   \o (IF i < Len(value.a) THEN <<",">> ELSE <<>>) \o <<NL>>
    IN  <<"{", SP>> \o RawKey(key) \o <<":", SP, "[", NL>>
        \o Join([i \in 1..Len(value.a) |-> line(i)], <<>>)
        \o next_indent \o <<"]", "}">>

\* the loop of lines 140-147 (the same at 153-160 and 164-171)
ExpandedShape(self, key, value, depth) ==
    LET indent == Repeat(self.indent_str, depth)
        next_indent == Repeat(self.indent_str, depth + 1)
        line(i) == next_indent \o format_value(self, value.a[i], depth + 1)
                   \o (IF i < Len(value.a) THEN <<",">> ELSE <<>>) \o <<NL>>
    IN  <<"{", SP>> \o RawKey(key) \o <<":", SP, "[", NL>>
        \o Join([i \in 1..Len(value.a) |-> line(i)], <<>>)
        \o indent \o <<"]", "}">>

\* lines 173-179
RegularObject(self, obj, depth) ==
    LET indent == Repeat(self.indent_str, depth)
        next_indent == Repeat(self.indent_str, depth + 1)
        items == [i \in 1..Len(obj.k) |->
                    next_indent \o RawKey(obj.k[i]) \o <<":", SP>>
                    \o format_value(self, obj.v[i], depth + 1)]
    IN  <<"{", NL>> \o Join(items, <<",", NL>>) \o <<NL>> \o indent \o <<"}">>

\* ScalarArrayFits that also asks for at most max_inline_items elements
ScalarArrayFits_ItemsToo(self, obj) ==
    /\ \A i \in 1..Len(obj.a) : IsScalar(obj.a[i])
    /\ Len(obj.a) <= self.max_inline_items
    /\ Len(SingleLine(obj)) <= self.max_inline_length

\* lines 186-188: every item is a scalar and the line is short enough
ScalarArrayFits(self, obj) ==
    /\ \A i \in 1..Len(obj.a) : IsScalar(obj.a[i])
    /\ Len(SingleLine(obj)) <= self.max_inline_length

\* lines 191-196
MultilineArray(self, obj, depth) ==
    LET indent == Repeat(self.indent_str, depth)
        next_indent == Repeat(self.indent_str, depth + 1)
        items == [i \in 1..Len(obj.a) |->
                    next_indent \o format_value(self, obj.a[i], depth + 1)]
    IN  <<"[", NL>> \o Join(items, <<",", NL>>) \o <<NL>> \o indent \o <<"]">>

format_value(self, obj, depth) ==
    IF IsScalar(obj) THEN SingleLine(obj)
    ELSE IF should_inline(self, obj) THEN SingleLine(obj)
    ELSE IF IsDict(obj) THEN
        IF Len(obj.k) = 0 THEN EmptyDict
        ELSE IF Len(obj.k) = 1 THEN
            LET key == obj.k[1]
                value == obj.v[1]
                level == get_operator_level(self, key)
                special == GetSpecial(self.operator_config)
            IN  IF level = "expanded" /\ IsList(value)
                    THEN ExpandedShape(self, key, value, depth)
                ELSE IF /\ key \in DOMAIN special
                        /\ special[key].always_expand
                        /\ IsList(value)
                    THEN ExpandedShape(self, key, value, depth)
                ELSE IF /\ key \in DOMAIN special
                        /\ special[key].has_min_items
                        /\ IsList(value)
                        /\ Len(value.a) > special[key].min_items
                    THEN ExpandedShape(self, key, value, depth)
                ELSE RegularObject(self, obj, depth)
        ELSE RegularObject(self, obj, depth)
    ELSE
        IF Len(obj.a) = 0 THEN EmptyList
        ELSE IF ScalarArrayFits(self, obj) THEN SingleLine(obj)
        ELSE MultilineArray(self, obj, depth)

\* SemiBeautifier.beautify
beautify(self, d) == format_value(self, d, 0)

-----------------------------------------------------------------------------
(* json.loads: Python's decoder, for the JSON this model can write: the    *)
(* literals, non-negative integers, strings, arrays and objects.  A result *)
(* is [ok, val, pos]: pos is the index after the value; ok is FALSE where  *)
(* the decoder raises JSONDecodeError.                                     *)

Fail == [ok |-> FALSE, val |-> Null, pos |-> 0]

Ok(val, pos) == [ok |-> TRUE, val |-> val, pos |-> pos]

WHITESPACE == {SP, NL, "\t", "\r"}

DIGITS == {"0", "1", "2", "3", "4", "5", "6", "7", "8", "9"}

DigitValue(c) == CHOOSE d \in 0..9 : Digit(d) = c

RECURSIVE SkipWs(_, _)
\* WHITESPACE.match(s, i).end()
SkipWs(s, i) == IF i <= Len(s) /\ s[i] \in WHITESPACE THEN SkipWs(s, i + 1) ELSE i

\* the text t stands in s at index i
Matches(s, i, t) ==
    /\ i + Len(t) - 1 <= Len(s)
    /\ \A j \in 1..Len(t) : s[i + j - 1] = t[j]

RECURSIVE ScanString(_, _, _)
\* py_scanstring, strict: i is the index after the opening quote.  Of the
\* escapes, \b and \uXXXX never stand in a text of this model.
ScanString(s, i, acc) ==
    IF i > Len(s) THEN Fail
    ELSE IF s[i] = QUOTE THEN Ok(acc, i + 1)
    ELSE IF s[i] \in {NL, "\t", "\r", "\f"} THEN Fail
    ELSE IF s[i] = BSL THEN
        IF i + 1 > Len(s) THEN Fail
        ELSE LET esc == s[i + 1]
             IN  CASE esc \in {QUOTE, BSL, "/"} ->
                        ScanString(s, i + 2, Append(acc, esc))
                   [] esc = "n" -> ScanString(s, i + 2, Append(acc, NL))
                   [] esc = "t" -> ScanString(s, i + 2, Append(acc, "\t"))
                   [] esc = "r" -> ScanString(s, i + 2, Append(acc, "\r"))
                   [] esc = "f" -> ScanString(s, i + 2, Append(acc, "\f"))
                   [] OTHER -> Fail
    ELSE ScanString(s, i + 1, Append(acc, s[i]))

RECURSIVE ScanDigits(_, _, _)
ScanDigits(s, i, n) ==
    IF i <= Len(s) /\ s[i] \in DIGITS
        THEN ScanDigits(s, i + 1, 10 * n + DigitValue(s[i]))
        ELSE Ok(Num(n), i)

\* NUMBER_RE, its integer part: 0, or a digit from 1 to 9 and more digits
ScanNumber(s, i) ==
    IF s[i] = "0" THEN Ok(Num(0), i + 1) ELSE ScanDigits(s, i, 0)

\* dict(pairs): a key met again keeps its place and takes the new value
DictSet(obj, key, value) ==
    IF \E i \in 1..Len(obj.k) : obj.k[i] = key
        THEN Obj(obj.k, [i \in 1..Len(obj.k) |->
                            IF obj.k[i] = key THEN value ELSE obj.v[i]])
        ELSE Obj(Append(obj.k, key), Append(obj.v, value))

RECURSIVE ScanOnce(_, _), JSONArray(_, _, _), JSONObject(_, _, _)

\* scanner.py_make_scanner._scan_once: the value that starts at index i
ScanOnce(s, i) ==
    IF i > Len(s) THEN Fail
    ELSE CASE s[i] = QUOTE ->
                LET r == ScanString(s, i + 1, <<>>)
                IN  IF r.ok THEN Ok(Str(r.val), r.pos) ELSE Fail
           [] s[i] = "{" ->
                LET j == SkipWs(s, i + 1)
                IN  IF j > Len(s) THEN Fail
                    ELSE IF s[j] = "}" THEN Ok(Obj(<<>>, <<>>), j + 1)
                    ELSE IF s[j] = QUOTE THEN JSONObject(s, j, Obj(<<>>, <<>>))
                    ELSE Fail
           [] s[i] = "[" ->
                LET j == SkipWs(s, i + 1)
                IN  IF j > Len(s) THEN Fail
                    ELSE IF s[j] = "]" THEN Ok(Arr(<<>>), j + 1)
                    ELSE JSONArray(s, j, <<>>)
           [] s[i] = "n" -> IF Matches(s, i, <<"n", "u", "l", "l">>)
                                THEN Ok(Null, i + 4) ELSE Fail
           [] s[i] = "t" -> IF Matches(s, i, <<"t", "r", "u", "e">>)
                                THEN Ok(Bool(TRUE), i + 4) ELSE Fail
           [] s[i] = "f" -> IF Matches(s, i, <<"f", "a", "l", "s", "e">>)
                                THEN Ok(Bool(FALSE), i + 5) ELSE Fail
           [] s[i] \in DIGITS -> ScanNumber(s, i)
           [] OTHER -> Fail

\* decoder.JSONArray: i is the index of the next element, acc the elements read
JSONArray(s, i, acc) ==
    LET r == ScanOnce(s, i)
    IN  IF ~r.ok THEN Fail
        ELSE LET j == SkipWs(s, r.pos)
             IN  IF j > Len(s) THEN Fail
                 ELSE IF s[j] = "]" THEN Ok(Arr(Append(acc, r.val)), j + 1)
                 ELSE IF s[j] = "," 
                     THEN JSONArray(s, SkipWs(s, j + 1), Append(acc, r.val))
                 ELSE Fail

\* decoder.JSONObject: i is the index of the quote that opens the next key,
\* acc the object read so far
JSONObject(s, i, acc) ==
    LET key == ScanString(s, i + 1, <<>>)
    IN  IF ~key.ok THEN Fail
        ELSE LET c == SkipWs(s, key.pos)
             IN  IF c > Len(s) \/ s[c] # ":" THEN Fail
                 ELSE LET r == ScanOnce(s, SkipWs(s, c + 1))
                      IN  IF ~r.ok THEN Fail
                          ELSE LET j == SkipWs(s, r.pos)
                                   obj == DictSet(acc, key.val, r.val)
                               IN  IF j > Len(s) THEN Fail
                                   ELSE IF s[j] = "}" THEN Ok(obj, j + 1)
                                   ELSE IF s[j] = "," THEN
                                       LET q == SkipWs(s, j + 1)
                                       IN  IF q <= Len(s) /\ s[q] = QUOTE
                                               THEN JSONObject(s, q, obj)
                                               ELSE Fail
                                   ELSE Fail

\* json.loads(s): one value, then only whitespace ("Extra data" otherwise)
JsonLoads(s) ==
    LET r == ScanOnce(s, SkipWs(s, 1))
    IN  IF ~r.ok THEN Fail
        ELSE IF SkipWs(s, r.pos) # Len(s) + 1 THEN Fail
        ELSE r


-----------------------------------------------------------------------------
(* The operator names of the built-in configurations *)

k_var == <<"v", "a", "r">>

k_exists == <<"e", "x", "i", "s", "t", "s">>

k_eq == <<"=", "=">>

k_ne == <<"!", "=">>

k_gt == <<">">>

k_lt == <<"<">>

k_ge == <<">", "=">>

k_le == <<"<", "=">>

k_cat == <<"c", "a", "t">>

k_substr == <<"s", "u", "b", "s", "t", "r">>

k_in == <<"i", "n">>

k_some == <<"s", "o", "m", "e">>

k_all == <<"a", "l", "l">>

k_starts_with == <<"s", "t", "a", "r", "t", "s", "_", "w", "i", "t", "h">>

k_ends_with == <<"e", "n", "d", "s", "_", "w", "i", "t", "h">>

k_if == <<"i", "f">>

k_and == <<"a", "n", "d">>

k_or == <<"o", "r">>

k_map == <<"m", "a", "p">>

k_filter == <<"f", "i", "l", "t", "e", "r">>

k_reduce == <<"r", "e", "d", "u", "c", "e">>

\* SemiBeautifier.__init__: the configuration used when none is handed in
DefaultConfig ==
    << Category("inline", {k_var, k_exists, k_eq, k_ne, k_gt, k_lt, k_ge, k_le}),
       Category("compact", {k_cat, k_substr, k_in, k_some, k_all,
                            k_starts_with, k_ends_with}),
       Category("expanded", {k_if, k_and, k_or}),
       SpecialItem((k_map :> MinItems(2)) @@ (k_filter :> MinItems(2))
                   @@ (k_reduce :> AlwaysExpand)) >>

\* main: the configuration the command-line overrides start from when no
\* configuration file was loaded
MainDefaultConfig ==
    << Category("inline", {k_var, k_exists, k_eq, k_ne, k_gt, k_lt, k_ge, k_le}),
       Category("compact", {k_cat, k_substr, k_in, k_some, k_all}),
       Category("expanded", {k_if, k_and, k_or}),
       SpecialItem(NoRules) >>

DefaultMaxInlineLength == 80

DefaultMaxInlineItems == 3

DefaultIndent == 4

\* SemiBeautifier.__init__
SemiBeautifier(max_inline_length, max_inline_items, indent, operator_config) ==
    [ max_inline_length |-> max_inline_length,
      max_inline_items |-> max_inline_items,
      indent_str |-> Repeat(<<SP>>, indent),
      operator_config |-> IF operator_config = <<>> THEN DefaultConfig
                                                    ELSE operator_config ]

\* operator_config[key] = list(ops): a key the dict holds keeps its place, a
\* new key goes last
DictPut(config, key, ops) ==
    LET i == DictIndex(config, key, 1)
    IN  IF i = 0 THEN Append(config, Category(key, ops))
        ELSE [config EXCEPT ![i].ops = ops]

\* operator_config[key] = list(set(operator_config.get(key, []) + extra)),
\* done only when extra is not empty
Override(config, key, extra) ==
    IF extra = {} THEN config ELSE DictPut(config, key, GetOps(config, key) \cup extra)

\* main, lines 283-307: the configuration handed to SemiBeautifier
BuildOperatorConfig(a) ==
    LET loaded == a.config
        start == IF loaded = <<>> THEN MainDefaultConfig ELSE loaded
    IN  IF a.inline # {} \/ a.compact # {} \/ a.expanded # {}
            THEN Override(Override(Override(start, "inline", a.inline),
                                   "compact", a.compact),
                          "expanded", a.expanded)
            ELSE loaded


-----------------------------------------------------------------------------
(* Bounds of the model *)

\* the longest array of scalars among the inputs
MaxLen == 3

\* the deepest depth a direct call of format_value is made at
MaxDepth == 2

\* how many times the command line lists the file (listing it fewer times
\* gives a prefix of the same run)
MaxFiles == 2

-----------------------------------------------------------------------------
(* The inputs: decoded JSON values *)

k_k == <<"k">>

\* two backslashes: written unescaped, a decoder reads them as one
k_bsl == <<BSL, BSL>>

\* a quote inside the key: written unescaped, it ends the string early
k_quote == <<"a", QUOTE>>

Keys == {k_if, k_var, k_cat, k_map, k_reduce, k_k, k_bsl, k_quote}

Leaves == {Num(1), Str(<<"x">>)}

Scalars == Leaves \cup {Null, Bool(TRUE), Num(10)}

LeafArrays == {Arr(a) : a \in UNION {[1..n -> Leaves] : n \in 0..MaxLen}}

Single(k, v) == Obj(<<k>>, <<v>>)

Pair(k1, v1, k2, v2) == Obj(<<k1, k2>>, <<v1, v2>>)

\* single-key objects over scalars and arrays of scalars
Operations == {Single(k, v) : k \in Keys, v \in Leaves \cup LeafArrays}

\* small containers to nest
Nested ==
    { Arr(<<>>), Obj(<<>>, <<>>), Arr(<<Num(1)>>),
      Single(k_var, Str(<<"x">>)), Single(k_if, Arr(<<Num(1)>>)),
      Single(k_k, Num(1)), Single(k_bsl, Arr(<<Num(1), Num(1)>>)),
      Pair(k_k, Num(1), k_if, Num(1)) }

Objects ==
    {Pair(k1, Num(1), k2, v) :
        k1 \in {k_k, k_if, k_bsl, k_quote}, k2 \in {k_k, k_var, k_bsl},
        v \in {Num(1), Arr(<<Num(1), Str(<<"x">>)>>), Obj(<<>>, <<>>)}}
    \cup {Obj(<<k1, k2, k3>>, <<Num(1), Num(1), Num(1)>>) :
            k1 \in {k_k, k_if}, k2 \in {k_var, k_k}, k3 \in {k_map, k_var}}

Trees ==
    {Arr(<<o>>) : o \in Nested}
    \cup {Arr(<<o, Num(1)>>) : o \in Nested}
    \cup {Arr(<<Num(1), o, o>>) : o \in Nested}
    \cup {Single(k, Arr(<<o, Str(<<"x">>)>>)) :
            k \in {k_if, k_k, k_map, k_cat, k_reduce}, o \in Nested}
    \cup {Single(k, o) : k \in {k_if, k_k, k_reduce, k_var}, o \in Nested}

\* an object has no key twice
WellFormed(v) ==
    IsDict(v) => \A i, j \in 1..Len(v.k) : v.k[i] = v.k[j] => i = j

Inputs == {v \in Scalars \cup LeafArrays \cup Operations \cup Objects \cup Trees :
              WellFormed(v)}

-----------------------------------------------------------------------------
(* The command lines *)

\* a configuration file that lists expanded before inline
DocReordered ==
    << Category("expanded", {k_if, k_k}),
       Category("inline", {k_k, k_var}),
       SpecialItem(k_map :> MinItems(1)) >>

\* a configuration file whose operators are in several categories and have
\* special rules too
DocOverlap ==
    << Category("inline", {k_map, k_k}),
       Category("compact", {k_reduce, k_cat}),
       Category("expanded", {k_k, k_if}),
       SpecialItem((k_map :> AlwaysExpand) @@ (k_reduce :> AlwaysExpand)
                   @@ (k_if :> MinItems(1)) @@ (k_var :> MinItems(0))) >>

\* a configuration file with one category and no special rules
DocPartial == << Category("expanded", {k_if, k_quote}) >>

Docs == {<<>>, DocReordered, DocOverlap, DocPartial}

Knobs ==
    [max_inline_length : {0, 1, 12, DefaultMaxInlineLength},
     max_inline_items : {0, 1, DefaultMaxInlineItems},
     indent : {1, DefaultIndent}]

DefaultKnobs ==
    [max_inline_length |-> DefaultMaxInlineLength,
     max_inline_items |-> DefaultMaxInlineItems,
     indent |-> DefaultIndent]

Args(docs, inlines, compacts, expandeds, knobs, in_places) ==
    {[config |-> c, inline |-> i, compact |-> m, expanded |-> e,
      max_inline_length |-> n.max_inline_length,
      max_inline_items |-> n.max_inline_items,
      indent |-> n.indent, in_place |-> p, files |-> MaxFiles] :
        c \in docs, i \in inlines, m \in compacts, e \in expandeds,
        n \in knobs, p \in in_places}

-----------------------------------------------------------------------------
(* The program *)

NoBeautifier == SemiBeautifier(0, 0, 0, <<>>)

NoCall == [op |-> "none", depth |-> 0, text |-> <<>>, verdict |-> FALSE]

\* the file as it is before the run: the input, minified
InitWith(argset, inputs) ==
    /\ args \in argset
    /\ \E v \in inputs : file = Minified(v)
    /\ data = Null
    /\ beautifier = NoBeautifier
    /\ formatted = <<>>
    /\ done = 0
    /\ err = FALSE
    /\ ret = NoCall
    /\ pc = "main"

Init ==
    \/ InitWith(Args({<<>>}, {{}}, {{}}, {{}}, Knobs, {TRUE}), Inputs)
    \/ InitWith(Args(Docs, {{}, {k_if}}, {{}, {k_k}}, {{}, {k_var}},
                     {DefaultKnobs}, BOOLEAN),
                Operations \cup Nested)

\* main, lines 283-314: assemble the configuration, build the beautifier
BuildBeautifier ==
    /\ pc = "main"
    /\ beautifier' = SemiBeautifier(args.max_inline_length, args.max_inline_items,
                                    args.indent, BuildOperatorConfig(args))
    /\ pc' = "files"
    /\ UNCHANGED <<args, file, data, formatted, done, err, ret>>

\* main, lines 316-342: the loop's body for the next file of the command line,
\* which is the one file again
ProcessFile ==
    /\ pc = "files"
    /\ done < args.files
    /\ LET r == JsonLoads(file)
       IN  IF r.ok
           THEN /\ data' = r.val
                /\ formatted' = beautify(beautifier, r.val)
                /\ file' = IF args.in_place THEN formatted' \o <<NL>> ELSE file
                /\ err' = FALSE
           ELSE /\ err' = TRUE
                /\ UNCHANGED <<data, formatted, file>>
    /\ done' = done + 1
    /\ ret' = NoCall
    /\ UNCHANGED <<args, beautifier, pc>>

\* a direct call of format_value on the value last loaded; ret holds the
\* result of the last direct call on the value now loaded
CallFormatValue ==
    /\ pc = "files"
    /\ done >= 1
    /\ ~err
    /\ \E d \in 0..MaxDepth :
          ret' = [op |-> "format_value", depth |-> d,
                  text |-> format_value(beautifier, data, d), verdict |-> FALSE]
    /\ UNCHANGED <<args, file, data, beautifier, formatted, done, err, pc>>

\* a direct call of should_inline on the value last loaded
CallShouldInline ==
    /\ pc = "files"
    /\ done >= 1
    /\ ~err
    /\ ret' = [op |-> "should_inline", depth |-> 0, text |-> <<>>,
               verdict |-> should_inline(beautifier, data)]
    /\ UNCHANGED <<args, file, data, beautifier, formatted, done, err, pc>>

Next == BuildBeautifier \/ ProcessFile \/ CallFormatValue \/ CallShouldInline

Spec == Init /\ [][Next]_vars


-----------------------------------------------------------------------------
(* Vocabulary of the properties *)

\* a file was loaded and formatted
Formatted == pc = "files" /\ done >= 1 /\ ~err

\* format_value was called directly on the value loaded
CalledFormat == ret.op = "format_value"

\* should_inline was called directly on the value loaded
CalledInline == ret.op = "should_inline"

\* a single-key object
IsOperation(v) == IsDict(v) /\ Len(v.k) = 1

\* the children of a container
Children(v) == IF IsDict(v) THEN v.v ELSE v.a

HasNewline(text) == \E i \in 1..Len(text) : text[i] = NL

RECURSIVE ElementLines(_, _, _, _)
\* the elements from the i-th on, each on its own line at the given depth, a
\* comma after each but the last
ElementLines(self, items, depth, i) ==
    IF i > Len(items) THEN <<>>
    ELSE Repeat(self.indent_str, depth) \o format_value(self, items[i], depth)
         \o (IF i < Len(items) THEN <<",">> ELSE <<>>) \o <<NL>>
         \o ElementLines(self, items, depth, i + 1)

\* the shape  { "<key>": [  ...  ]}  of an expanded operation at depth d
OperationShape(self, key, items, d) ==
    <<"{", SP, QUOTE>> \o key \o <<QUOTE, ":", SP, "[", NL>>
    \o ElementLines(self, items, d + 1, 1)
    \o Repeat(self.indent_str, d) \o <<"]", "}">>

RECURSIVE ArrayLines(_, _, _, _)
\* as ElementLines, with no newline after the last element
ArrayLines(self, items, depth, i) ==
    IF i > Len(items) THEN <<>>
    ELSE Repeat(self.indent_str, depth) \o format_value(self, items[i], depth)
         \o (IF i < Len(items) THEN <<",", NL>> ELSE <<>>)
         \o ArrayLines(self, items, depth, i + 1)

\* the multi-line shape of an array at depth d
ArrayShape(self, items, d) ==
    <<"[", NL>> \o ArrayLines(self, items, d + 1, 1) \o <<NL>>
    \o Repeat(self.indent_str, d) \o <<"]">>

RECURSIVE KeysOf(_)
\* the keys of every object of a value, in the order a reader meets them
KeysOf(v) ==
    IF IsScalar(v) THEN <<>>
    ELSE IF IsList(v) THEN Join([i \in 1..Len(v.a) |-> KeysOf(v.a[i])], <<>>)
    ELSE Join([i \in 1..Len(v.k) |-> <<v.k[i]>> \o KeysOf(v.v[i])], <<>>)

RECURSIVE LeavesOf(_)
\* the scalars of a value, in the order a reader meets them
LeavesOf(v) ==
    IF IsScalar(v) THEN <<v>>
    ELSE Join([i \in 1..Len(Children(v)) |-> LeavesOf(Children(v)[i])], <<>>)

RECURSIVE CountEmpty(_, _)
\* how many empty containers of type t ("obj" or "arr") a value holds
CountEmpty(v, t) ==
    IF IsScalar(v) THEN 0
    ELSE IF Len(Children(v)) = 0 THEN (IF v.t = t THEN 1 ELSE 0)
    ELSE LET n[i \in 0..Len(Children(v))] ==
                 IF i = 0 THEN 0 ELSE n[i - 1] + CountEmpty(Children(v)[i], t)
         IN  n[Len(Children(v))]

\* how many times character a is directly followed by character b
CountPairs(text, a, b) ==
    Cardinality({i \in 1..(Len(text) - 1) : text[i] = a /\ text[i + 1] = b})

\* the class a name has when the categories are looked up in the fixed order
\* inline, compact, expanded
FixedOrderLevel(config, name) ==
    IF name \in GetOps(config, "inline") THEN "inline"
    ELSE IF name \in GetOps(config, "compact") THEN "compact"
    ELSE IF name \in GetOps(config, "expanded") THEN "expanded"
    ELSE "auto"

\* a special rule of the key applies to the value: always_expand, or min_items
\* and an array longer than it
RuleApplies(self, key, value) ==
    LET special == GetSpecial(self.operator_config)
    IN  /\ key \in DOMAIN special
        /\ \/ special[key].always_expand
           \/ /\ special[key].has_min_items
              /\ IsList(value)
              /\ Len(value.a) > special[key].min_items

\* the key's special rule is min_items alone
MinItemsRule(self, key) ==
    LET special == GetSpecial(self.operator_config)
    IN  /\ key \in DOMAIN special
        /\ special[key].has_min_items
        /\ ~special[key].always_expand

\* the premises of the inline threshold law
WithinThresholds(self, v) ==
    /\ ~IsScalar(v)
    /\ Len(Minified(v)) <= self.max_inline_length
    /\ Len(Children(v)) <= self.max_inline_items
    /\ \A i \in 1..Len(Children(v)) : should_inline(self, Children(v)[i])

\* a single-key object whose key refuses inlining: by its class expanded, by
\* the compact rule, or (class not inline) by a special rule that applies
KeyForcesExpansion(self, v) ==
    /\ IsOperation(v)
    /\ LET level == get_operator_level(self, v.k[1])
       IN  \/ level = "expanded"
           \/ level = "compact" /\ IsList(v.v[1]) /\ Len(v.v[1].a) > 2
           \/ level \notin {"inline", "compact", "expanded"}
              /\ RuleApplies(self, v.k[1], v.v[1])

-----------------------------------------------------------------------------
(* C1: idempotence.  Decoding the text beautify produced and beautifying   *)
(* the decoded value with the same policy gives the same text, character   *)
(* for character, for every input and every policy.                        *)
C1_Idempotence ==
    Formatted =>
        LET r == JsonLoads(formatted)
        IN  r.ok /\ beautify(beautifier, r.val) = formatted

(* C2 as stated: every object or array, single-key objects of any layout   *)
(* class included, that is within max_inline_length and max_inline_items   *)
(* and whose children all inline, is rendered as its single-line encoding. *)
C2_InlineLawAnyObject ==
    (CalledFormat /\ WithinThresholds(beautifier, data))
        => ret.text = SingleLine(data)

(* C2, amended: the inline threshold law holds for every array and every   *)
(* object except a single-key object whose key refuses inlining (class     *)
(* expanded; class compact with an array of more than two elements; or, a  *)
(* key of no class, a special rule that applies).                          *)
C2_InlineLaw ==
    (/\ CalledFormat
     /\ WithinThresholds(beautifier, data)
     /\ ~KeyForcesExpansion(beautifier, data))
        => /\ ret.text = SingleLine(data)
           /\ ~HasNewline(ret.text)

C2_Witness ==
    /\ CalledFormat
    /\ WithinThresholds(beautifier, data)
    /\ IsDict(data)
    /\ Len(data.k) = DefaultMaxInlineItems
    /\ beautifier.max_inline_items = DefaultMaxInlineItems
    /\ ret.text = SingleLine(data)

(* C3: get_operator_level resolves a name that is in several categories in *)
(* the fixed order inline, compact, expanded, whatever order the policy    *)
(* lists its categories in; a single-key object whose key is in both       *)
(* inline and expanded has should_inline true and is rendered on one line. *)
C3_FixedPrecedence ==
    pc = "files" =>
        /\ \A name \in Keys :
              get_operator_level(beautifier, name)
                  = FixedOrderLevel(beautifier.operator_config, name)
        /\ (/\ ret.op # "none"
            /\ IsOperation(data)
            /\ data.k[1] \in GetOps(beautifier.operator_config, "inline")
            /\ data.k[1] \in GetOps(beautifier.operator_config, "expanded"))
              => /\ CalledInline => ret.verdict
                 /\ CalledFormat => ret.text = SingleLine(data)

(* C4: expansion forcing.  A single-key object whose key classifies as     *)
(* expanded is never inlined, whatever its size, and when its value is an  *)
(* array format_value at depth d returns '{ "<key>": [', a newline, each   *)
(* element rendered at depth d+1 on its own line behind d+1 indent units   *)
(* and comma-separated, then ']}' behind d indent units.                   *)
C4_ExpansionForcing ==
    (/\ ret.op # "none"
     /\ IsOperation(data)
     /\ get_operator_level(beautifier, data.k[1]) = "expanded")
        => /\ CalledInline => ~ret.verdict
           /\ (CalledFormat /\ IsList(data.v[1]))
                => ret.text = OperationShape(beautifier, data.k[1],
                                             data.v[1].a, ret.depth)

C4_Witness ==
    /\ CalledFormat
    /\ ret.depth >= 1
    /\ IsOperation(data)
    /\ get_operator_level(beautifier, data.k[1]) = "expanded"
    /\ IsList(data.v[1])
    /\ Len(data.v[1].a) >= 2
    /\ Len(Minified(data)) <= beautifier.max_inline_length
    /\ HasNewline(ret.text)

(* C5: special min_items.  For a single-key object whose key has no class  *)
(* (auto) and the special rule min_items = n: an array value of more than  *)
(* n elements makes should_inline false and the rendering the expanded     *)
(* operation shape; otherwise should_inline of the node is should_inline   *)
(* of its value.                                                           *)
C5_SpecialMinItems ==
    (/\ ret.op # "none"
     /\ IsOperation(data)
     /\ get_operator_level(beautifier, data.k[1]) = "auto"
     /\ MinItemsRule(beautifier, data.k[1]))
        => LET n == GetSpecial(beautifier.operator_config)[data.k[1]].min_items
               value == data.v[1]
           IN  IF IsList(value) /\ Len(value.a) > n
               THEN /\ CalledInline => ~ret.verdict
                    /\ CalledFormat =>
                          ret.text = OperationShape(beautifier, data.k[1],
                                                    value.a, ret.depth)
               ELSE CalledInline => ret.verdict = should_inline(beautifier, value)

C5_Witness ==
    /\ CalledInline
    /\ IsOperation(data)
    /\ get_operator_level(beautifier, data.k[1]) = "auto"
    /\ MinItemsRule(beautifier, data.k[1])
    /\ IsList(data.v[1])
    /\ Len(data.v[1].a) = GetSpecial(beautifier.operator_config)[data.k[1]].min_items
    /\ Len(data.v[1].a) = 2
    /\ ret.verdict

(* C6: scalar-array fallback.  A non-empty array of scalars whose          *)
(* single-line encoding is within max_inline_length is rendered as that    *)
(* line even when it has more than max_inline_items elements; an array     *)
(* that is not inlined and holds a non-scalar element is rendered as '[',  *)
(* one element per line at depth+1, and ']' at the current indent.         *)
C6_ScalarArrayFallback ==
    (CalledFormat /\ IsList(data) /\ Len(data.a) > 0)
        => /\ (/\ \A i \in 1..Len(data.a) : IsScalar(data.a[i])
               /\ Len(SingleLine(data)) <= beautifier.max_inline_length)
                 => ret.text = SingleLine(data)
           /\ (/\ ~should_inline(beautifier, data)
               /\ \E i \in 1..Len(data.a) : ~IsScalar(data.a[i]))
                 => ret.text = ArrayShape(beautifier, data.a, ret.depth)

C6_Witness ==
    /\ CalledFormat
    /\ IsList(data)
    /\ \A i \in 1..Len(data.a) : IsScalar(data.a[i])
    /\ Len(data.a) > beautifier.max_inline_items
    /\ beautifier.max_inline_items >= 1
    /\ ~should_inline(beautifier, data)
    /\ ret.text = SingleLine(data)

(* C7: key order preservation.  Whatever layout is chosen, the keys of     *)
(* every object stand in the output in the object's insertion order, each  *)
(* once, and the elements of every array keep their order.                 *)
C7_KeyOrder ==
    Formatted =>
        LET r == JsonLoads(formatted)
        IN  /\ r.ok
            /\ KeysOf(r.val) = KeysOf(data)
            /\ LeavesOf(r.val) = LeavesOf(data)

(* C8: empty container canonical form.  For every policy and every depth   *)
(* the empty object is rendered as '{}' and the empty array as '[]',       *)
(* wherever they occur in the tree.                                        *)
C8_EmptyCanonical ==
    CalledFormat =>
        /\ data = Obj(<<>>, <<>>) => ret.text = <<"{", "}">>
        /\ data = Arr(<<>>) => ret.text = <<"[", "]">>
        /\ CountPairs(ret.text, "{", "}") = CountEmpty(data, "obj")
        /\ CountPairs(ret.text, "[", "]") = CountEmpty(data, "arr")

(* C9: policy assembly only adds.  Every name and every special rule of    *)
(* the starting policy (the policy document, or with none the built-in     *)
(* default of the formatter) is in the policy handed to the formatter.     *)
C9_OverridesOnlyAdd ==
    pc = "files" =>
        LET start == IF args.config = <<>> THEN DefaultConfig ELSE args.config
            final == beautifier.operator_config
        IN  /\ \A c \in {"inline", "compact", "expanded"} :
                  GetOps(start, c) \subseteq GetOps(final, c)
            /\ \A name \in DOMAIN GetSpecial(start) :
                  /\ name \in DOMAIN GetSpecial(final)
                  /\ GetSpecial(final)[name] = GetSpecial(start)[name]

(* C10 as stated: a special rule that applies makes should_inline false    *)
(* and the node rendered expanded, whatever layout class the key has.      *)
C10_SpecialBeatsAnyClass ==
    (/\ ret.op # "none"
     /\ IsOperation(data)
     /\ RuleApplies(beautifier, data.k[1], data.v[1]))
        => /\ CalledInline => ~ret.verdict
           /\ CalledFormat => HasNewline(ret.text)

(* C10, amended: a special rule that applies makes should_inline false and *)
(* the node rendered expanded when the key's layout class is auto or       *)
(* expanded; an array value is then rendered in the operation shape.  (A   *)
(* key of class inline is inlined whatever its special rule says, and for  *)
(* a key of class compact should_inline does not consult the rule.)        *)
C10_SpecialBeatsAutoClass ==
    (/\ ret.op # "none"
     /\ IsOperation(data)
     /\ RuleApplies(beautifier, data.k[1], data.v[1])
     /\ get_operator_level(beautifier, data.k[1]) \in {"auto", "expanded"})
        => /\ CalledInline => ~ret.verdict
           /\ CalledFormat =>
                 /\ HasNewline(ret.text)
                 /\ IsList(data.v[1]) =>
                       ret.text = OperationShape(beautifier, data.k[1],
                                                 data.v[1].a, ret.depth)

C10_Witness ==
    /\ CalledFormat
    /\ IsOperation(data)
    /\ RuleApplies(beautifier, data.k[1], data.v[1])
    /\ get_operator_level(beautifier, data.k[1]) = "auto"
    /\ GetSpecial(beautifier.operator_config)[data.k[1]].always_expand
    /\ should_inline(beautifier, data.v[1])
    /\ HasNewline(ret.text)


-----------------------------------------------------------------------------
\* format_value wrote the value loaded, a multi-key object or an array, on one
\* line: should_inline accepted it, or it is an array of scalars that the
\* second attempt accepted
EmittedOnOneLine ==
    /\ CalledFormat
    /\ IsList(data) \/ (IsDict(data) /\ Len(data.k) >= 2)
    /\ \/ should_inline(beautifier, data)
       \/ /\ IsList(data)
          /\ Len(data.a) > 0
          /\ ScalarArrayFits(beautifier, data)

(* C11: length budget of one-line renderings.  Whenever format_value       *)
(* writes a multi-key object or an array on a single line, through the     *)
(* should_inline branch or through the scalar-array fallback, the text as  *)
(* written, with ", " and ": ", is no longer than max_inline_length.       *)
C11_LengthBudget ==
    EmittedOnOneLine =>
        /\ ret.text = SingleLine(data)
        /\ Len(ret.text) <= beautifier.max_inline_length


====
